---- MODULE Spec2Model ----
(***************************************************************************)
(* Banking back office: the transaction execution and approval core of     *)
(* BankingFacadeDB (patterns/facade/banking_facade_db.py) with the account *)
(* domain object, the account state policy, the approval chain and the     *)
(* repositories it calls.  Amounts and balances are whole currency units.  *)
(* Every action of Spec, TierSpec and ObsSpec is one complete facade call,  *)
(* run to its return or raise; RaceSpec takes the calls of two handlers    *)
(* one repository access at a time.                                        *)
(***************************************************************************)
EXTENDS Integers, Sequences, FiniteSets, TLC

\* ------------------------------------------------------------------------
\* Program constants
\* ------------------------------------------------------------------------
AUTO_APPROVE_THRESHOLD == 25000

EMPLOYEE_APPROVE_THRESHOLD == 75000

\* ------------------------------------------------------------------------
\* Bounds and input sets
\* ------------------------------------------------------------------------
MaxOps == 2

AccountIds == {"A", "B"}

UnknownAccountId == "Z"

RequestIds == AccountIds \cup {UnknownAccountId}

\* Account A stays Active as the counterparty; B (Active, Frozen, Suspended
\* or Closed at the start) is the account whose lifecycle state changes.
StateChangeIds == {"B", UnknownAccountId}

\* Source and target of the transfers requested: both directions, a
\* transfer of B to itself, an unknown source and an unknown target.
TransferPairs == {<<"A", "B">>, <<"B", "A">>, <<"B", "B">>,
                  <<UnknownAccountId, "A">>, <<"A", UnknownAccountId>>}

Users == {"u1", "u2"}

InitialOwner == [a \in AccountIds |-> IF a = "A" THEN "u1" ELSE "u2"]

InitialBalance == [a \in AccountIds |-> IF a = "A" THEN 300 ELSE 40000]

Amounts == {0, 200, 30000, 80000}

NoAuth == "none"

\* A caller's identity: the user id it passes and the account it
\* authenticated with (NoAuth in the user/role flow).
Credentials == {<<"u1", NoAuth>>, <<"u2", NoAuth>>, <<"u1", "A">>, <<"u2", "A">>}

\* ------------------------------------------------------------------------
\* Enumerations
\* ------------------------------------------------------------------------
Role == {"customer", "employee", "admin"}

TransactionType == {"deposit", "withdrawal", "transfer"}

TransactionStatus == {"pending", "approved", "rejected", "completed"}

AccountStateEnum == {"Active", "Frozen", "Suspended", "Closed"}

state_map == [n \in {"active", "frozen", "suspended", "closed"} |->
                CASE n = "active" -> "Active"
                  [] n = "frozen" -> "Frozen"
                  [] n = "suspended" -> "Suspended"
                  [] n = "closed" -> "Closed"]

StateNames == DOMAIN state_map

\* The request handlers that may run at the same time, and the behaviour of
\* the observers attached to the facade, in their order of registration.
Procs == {1, 2}

ObserverKinds == {"ok", "raises"}

\* The observer classes of the program, whose update() appends to a list
\* and returns, and an implementation of Observer whose update() raises.
ConcreteObservers == {"audit", "notification", "reporting"}

Kind(o) == IF o \in ConcreteObservers THEN "ok" ELSE "raises"

ObserverLists ==
    {s \in [{1, 2} -> {"audit", "notification", "faulty"}] : s[1] # s[2]}

VARIABLES accounts, txs, applied, last, calls, observers, inflight

vars == <<accounts, txs, applied, last, calls, observers, inflight>>

\* ------------------------------------------------------------------------
\* Account state policy (patterns/state/account_state.py)
\* ------------------------------------------------------------------------
\* A policy under which a Frozen account refuses deposits as well.
StateDeposit_FrozenRefuses(s) ==
    CASE s = "Active" -> TRUE
      [] s = "Frozen" -> FALSE
      [] s = "Suspended" -> TRUE
      [] s = "Closed" -> FALSE

\* A policy under which a Closed account still takes deposits.
StateDeposit_ClosedAccepts(s) ==
    CASE s = "Active" -> TRUE
      [] s = "Frozen" -> TRUE
      [] s = "Suspended" -> TRUE
      [] s = "Closed" -> TRUE

StateDeposit(s) ==
    CASE s = "Active" -> TRUE
      [] s = "Frozen" -> TRUE
      [] s = "Suspended" -> TRUE
      [] s = "Closed" -> FALSE

\* A policy under which a Suspended account may still withdraw.
StateWithdraw_SuspendedAllows(s) ==
    CASE s = "Active" -> TRUE
      [] s = "Frozen" -> FALSE
      [] s = "Suspended" -> TRUE
      [] s = "Closed" -> FALSE

StateWithdraw(s) ==
    CASE s = "Active" -> TRUE
      [] s = "Frozen" -> FALSE
      [] s = "Suspended" -> FALSE
      [] s = "Closed" -> FALSE

StateTransfer(s) ==
    CASE s = "Active" -> TRUE
      [] s = "Frozen" -> FALSE
      [] s = "Suspended" -> FALSE
      [] s = "Closed" -> FALSE

\* ------------------------------------------------------------------------
\* Account domain object (domain/account/account.py).  Each operation
\* returns the account after the call, the boolean it returned, and the
\* exception it raised ("none" when it returned normally).
\* ------------------------------------------------------------------------
Ret(acc, ret, err) == [acc |-> acc, ret |-> ret, err |-> err]

SetState(acc, new_state) ==
    IF acc.is_closed /\ new_state # "Closed"
    THEN Ret(acc, FALSE, "InvalidStateTransition")
    ELSE Ret([acc EXCEPT !.state = new_state], TRUE, "none")

AccountDeposit(acc, amount) ==
    IF ~StateDeposit(acc.state) THEN Ret(acc, FALSE, "none")
    ELSE IF amount <= 0 THEN Ret(acc, FALSE, "none")
    ELSE Ret([acc EXCEPT !.balance = @ + amount], TRUE, "none")

\* A withdraw that refuses an overdrawn account instead of an amount above
\* the balance.
AccountWithdraw_ChecksSign(acc, amount) ==
    IF ~StateWithdraw(acc.state)
    THEN IF acc.state = "Frozen"
         THEN Ret(acc, FALSE, "FrozenAccount")
         ELSE Ret(acc, FALSE, "none")
    ELSE IF amount <= 0 THEN Ret(acc, FALSE, "none")
    ELSE IF acc.balance < 0 THEN Ret(acc, FALSE, "InsufficientFunds")
    ELSE Ret([acc EXCEPT !.balance = @ - amount], TRUE, "none")

\* A withdraw that does not compare the amount with the balance.
AccountWithdraw_NoFundsCheck(acc, amount) ==
    IF ~StateWithdraw(acc.state)
    THEN IF acc.state = "Frozen"
         THEN Ret(acc, FALSE, "FrozenAccount")
         ELSE Ret(acc, FALSE, "none")
    ELSE IF amount <= 0 THEN Ret(acc, FALSE, "none")
    ELSE Ret([acc EXCEPT !.balance = @ - amount], TRUE, "none")

AccountWithdraw(acc, amount) ==
    IF ~StateWithdraw(acc.state)
    THEN IF acc.state = "Frozen"
         THEN Ret(acc, FALSE, "FrozenAccount")
         ELSE Ret(acc, FALSE, "none")
    ELSE IF amount <= 0 THEN Ret(acc, FALSE, "none")
    ELSE IF acc.balance < amount THEN Ret(acc, FALSE, "InsufficientFunds")
    ELSE Ret([acc EXCEPT !.balance = @ - amount], TRUE, "none")

AccountTransfer(acc, amount) ==
    IF ~StateTransfer(acc.state)
    THEN IF acc.state = "Frozen"
         THEN Ret(acc, FALSE, "FrozenAccount")
         ELSE Ret(acc, FALSE, "none")
    ELSE IF amount <= 0 THEN Ret(acc, FALSE, "none")
    ELSE IF acc.balance < amount THEN Ret(acc, FALSE, "InsufficientFunds")
    ELSE Ret(acc, TRUE, "none")

\* ------------------------------------------------------------------------
\* Approval chain (patterns/chain/approval_handler.py).  A decision is the
\* value handle() returned (TRUE, or FALSE for None), the approver label
\* transaction.approve() was given ("none" when it was not called) and the
\* handler whose return statement produced the value ("none" when the last
\* handler passed the request on and the chain ended).
\* ------------------------------------------------------------------------
Decision(approved, approver, handler) ==
    [approved |-> approved, approver |-> approver, handler |-> handler]

Title(role) ==
    CASE role = "customer" -> "Customer"
      [] role = "employee" -> "Employee"
      [] role = "admin" -> "Admin"

\* An admin tier that also approves for an Employee.
AdminApprovalHandler_EmployeeToo(amount, user_role) ==
    IF amount > EMPLOYEE_APPROVE_THRESHOLD
    THEN IF user_role \in {"employee", "admin"}
         THEN Decision(TRUE, "Admin", "Admin")
         ELSE Decision(FALSE, "none", "Admin")
    ELSE Decision(FALSE, "none", "none")

AdminApprovalHandler(amount, user_role) ==
    IF amount > EMPLOYEE_APPROVE_THRESHOLD
    THEN IF user_role = "admin"
         THEN Decision(TRUE, "Admin", "Admin")
         ELSE Decision(FALSE, "none", "Admin")
    ELSE Decision(FALSE, "none", "none")

\* An employee tier that approves for whatever role asks.
EmployeeApprovalHandler_AnyRole(amount, user_role) ==
    IF AUTO_APPROVE_THRESHOLD < amount /\ amount <= EMPLOYEE_APPROVE_THRESHOLD
    THEN Decision(TRUE, Title(user_role), "Employee")
    ELSE AdminApprovalHandler(amount, user_role)

\* An employee tier that hands a Customer's request on to the admin tier.
EmployeeApprovalHandler_FallsThrough(amount, user_role) ==
    IF /\ AUTO_APPROVE_THRESHOLD < amount
       /\ amount <= EMPLOYEE_APPROVE_THRESHOLD
       /\ user_role \in {"employee", "admin"}
    THEN Decision(TRUE, Title(user_role), "Employee")
    ELSE AdminApprovalHandler(amount, user_role)

EmployeeApprovalHandler(amount, user_role) ==
    IF AUTO_APPROVE_THRESHOLD < amount /\ amount <= EMPLOYEE_APPROVE_THRESHOLD
    THEN IF user_role \in {"employee", "admin"}
         THEN Decision(TRUE, Title(user_role), "Employee")
         ELSE Decision(FALSE, "none", "Employee")
    ELSE AdminApprovalHandler(amount, user_role)

\* An auto tier whose range stops short of the threshold itself.
AutoApprovalHandler_Exclusive(amount, user_role) ==
    IF amount < AUTO_APPROVE_THRESHOLD
    THEN Decision(TRUE, "System", "Auto")
    ELSE EmployeeApprovalHandler(amount, user_role)

AutoApprovalHandler(amount, user_role) ==
    IF amount <= AUTO_APPROVE_THRESHOLD
    THEN Decision(TRUE, "System", "Auto")
    ELSE EmployeeApprovalHandler(amount, user_role)

ApprovalChain(amount, user_role) == AutoApprovalHandler(amount, user_role)

\* ------------------------------------------------------------------------
\* Repositories (database/repository.py)
\* ------------------------------------------------------------------------
\* AccountRepository.to_domain_account: a fresh Account (Active, is_closed
\* False) takes the row's state through set_state, then the row's flag.
ToDomainAccount(row) ==
    LET fresh == [balance |-> row.balance, state |-> "Active",
                  is_closed |-> FALSE, owner_id |-> row.owner_id]
    IN [SetState(fresh, row.state).acc EXCEPT !.is_closed = row.is_closed]

GetAccount(db, a) == ToDomainAccount(db[a])

UpdateBalance(db, a, new_balance) == [db EXCEPT ![a].balance = new_balance]

UpdateState(db, a, s) ==
    [db EXCEPT ![a].state = s,
               ![a].is_closed = IF s = "Closed" THEN TRUE ELSE @]

\* A transaction row carries, next to its columns, the trail of the
\* statuses committed for it so far (a history field, not a column).
TransactionCreate(rows, type, a, amount, target) ==
    Append(rows, [transaction_type |-> type, account_id |-> a,
                  target_account_id |-> target, amount |-> amount,
                  status |-> "pending", trail |-> <<"pending">>])

UpdateStatus(rows, id, status) ==
    [rows EXCEPT ![id].status = status, ![id].trail = Append(@, status)]

\* ------------------------------------------------------------------------
\* Outcome of the last facade call, as its caller sees it
\* ------------------------------------------------------------------------
Event(type, a) == [type |-> type, account_id |-> a]

\* Subject.notifyObserver called once per event, in order: each call runs
\* update() on the observers in registration order, and an observer that
\* raises ends the loop and the calls that would have followed.
Notify(obs, events) ==
    LET raising == {i \in DOMAIN obs : Kind(obs[i]) = "raises"}
        k == IF raising = {} THEN 0
             ELSE CHOOSE i \in raising : \A j \in raising : i <= j
        raised == events # << >> /\ k # 0
    IN [raised |-> raised,
        emitted |-> IF raised THEN <<events[1]>> ELSE events,
        received |-> [i \in DOMAIN obs |->
                        IF ~raised THEN events
                        ELSE IF i <= k THEN <<events[1]>> ELSE << >>]]

\* events are the notifications the call goes on to make once its writes
\* are committed; the outcome keeps those that were made, and an observer's
\* exception leaves the call as its result.
Outcome(op, role, tx, result, status, approver, events) ==
    LET n == Notify(observers, events)
    IN [op |-> op, role |-> role, tx |-> tx,
        result |-> IF n.raised THEN "ListenerError" ELSE result,
        status |-> status, approver |-> approver, events |-> n.emitted]

NoAccount == [balance |-> 0, state |-> "Active", is_closed |-> FALSE,
              owner_id |-> "none"]

\* A handler's call: where it stands (pc), its arguments, the Account
\* objects it loaded, whether it has written a balance, and what it returned
\* or raised ("none" until then).  inflight holds the call of each handler
\* that has taken one, the last one once the handler is idle again.
Idle == [pc |-> "idle", op |-> "none", tx |-> 0, account_id |-> "none",
         target_account_id |-> "none", amount |-> 0, role |-> "none",
         account |-> NoAccount, target |-> NoAccount,
         wrote |-> FALSE, result |-> "none"]

Start(obs) ==
    /\ observers = obs
    /\ inflight = << >>
    /\ \E s \in AccountStateEnum :
          accounts = [a \in AccountIds |->
                        LET st == IF a = "B" THEN s ELSE "Active"
                        IN [balance |-> InitialBalance[a], state |-> st,
                            is_closed |-> (st = "Closed"),
                            owner_id |-> InitialOwner[a]]]
    /\ txs = << >>
    /\ applied = << >>
    /\ calls = 0
    /\ last = Outcome("init", "none", 0, "ok", "none", "none", << >>)

\* The application registers observers that do not raise (app.py 61,
\* services/notification_service.py 15).
Init == Start(<<"audit", "notification">>)

\* ------------------------------------------------------------------------
\* BankingFacadeDB.change_account_state
\* ------------------------------------------------------------------------
\* A state change that asks for no particular role.
change_account_state_AnyRole(a, state_name, user_role) ==
    LET fail(err) ==
            /\ last' = Outcome("change_account_state", user_role, 0, err, "none",
                               "none", << >>)
            /\ UNCHANGED <<accounts, txs, applied>>
    IN IF a \notin AccountIds THEN fail("AccountNotFound")
       ELSE IF state_name \notin DOMAIN state_map THEN fail("InvalidTransaction")
       ELSE /\ accounts' = UpdateState(accounts, a, state_map[state_name])
            /\ last' = Outcome("change_account_state", user_role, 0, "ok", "none",
                               "none", <<Event("ACCOUNT_STATE_CHANGED", a)>>)
            /\ UNCHANGED <<txs, applied>>

change_account_state(a, state_name, user_role) ==
    LET fail(err) ==
            /\ last' = Outcome("change_account_state", user_role, 0, err, "none",
                               "none", << >>)
            /\ UNCHANGED <<accounts, txs, applied>>
    IN IF user_role \notin {"employee", "admin"} THEN fail("UnauthorizedAccess")
       ELSE IF a \notin AccountIds THEN fail("AccountNotFound")
       ELSE IF state_name \notin DOMAIN state_map THEN fail("InvalidTransaction")
       ELSE /\ accounts' = UpdateState(accounts, a, state_map[state_name])
            /\ last' = Outcome("change_account_state", user_role, 0, "ok", "none",
                               "none", <<Event("ACCOUNT_STATE_CHANGED", a)>>)
            /\ UNCHANGED <<txs, applied>>

\* ------------------------------------------------------------------------
\* Ownership enforcement shared by withdraw and transfer
\* (banking_facade_db.py 166-180 and 245-259): the exception raised, or
\* "none" when the caller may proceed.
\* ------------------------------------------------------------------------
\* An enforcement that checks the authenticated account only.
OwnershipCheck_OwnerUnchecked(a, account, user_role, user_id, auth) ==
    IF auth # NoAuth
    THEN IF a # auth THEN "UnauthorizedAccess" ELSE "none"
    ELSE "none"

OwnershipCheck(a, account, user_role, user_id, auth) ==
    IF auth # NoAuth
    THEN IF a # auth THEN "UnauthorizedAccess" ELSE "none"
    ELSE IF user_role = "customer"
         THEN IF account.owner_id # user_id THEN "UnauthorizedAccess" ELSE "none"
         ELSE "none"

\* Number of persisted balance changes a facade call made (0 or 1 per call),
\* recorded per transaction in the history variable applied.
Changed(db_before, db_after) == IF db_after # db_before THEN 1 ELSE 0

\* ------------------------------------------------------------------------
\* BankingFacadeDB.deposit
\* ------------------------------------------------------------------------
\* A deposit that creates the transaction row before it looks the account
\* up.
deposit_CreatesBeforeLookup(a, amount, user_role, user_id) ==
    IF a \notin AccountIds
    THEN /\ txs' = TransactionCreate(txs, "deposit", a, amount, "none")
         /\ applied' = Append(applied, 0)
         /\ last' = Outcome("deposit", "none", 0, "AccountNotFound", "none",
                            "none", << >>)
         /\ UNCHANGED accounts
    ELSE LET account == GetAccount(accounts, a)
                id == Len(txs) + 1
                created == TransactionCreate(txs, "deposit", a, amount, "none")
                d == ApprovalChain(amount, user_role)
                r == AccountDeposit(account, amount)
            IN IF d.approved /\ r.ret
               THEN /\ accounts' = UpdateBalance(accounts, a, r.acc.balance)
                    /\ txs' = UpdateStatus(created, id, "completed")
                    /\ applied' = Append(applied, Changed(accounts, accounts'))
                    /\ last' = Outcome("deposit", "none", id, "ok", "completed",
                                       d.approver,
                                       <<Event("TRANSACTION_COMPLETED", a),
                                         Event("BALANCE_CHANGED", a)>>)
               ELSE /\ txs' = created
                    /\ applied' = Append(applied, 0)
                    /\ last' = Outcome("deposit", "none", id, "ok",
                                       IF d.approved THEN "approved" ELSE "pending",
                                       d.approver, << >>)
                    /\ UNCHANGED accounts

\* A deposit that enforces ownership the way withdraw does in the user/role
\* flow.
deposit_OwnerOnly(a, amount, user_role, user_id) ==
    IF a \notin AccountIds
    THEN /\ last' = Outcome("deposit", "none", 0, "AccountNotFound", "none",
                            "none", << >>)
         /\ UNCHANGED <<accounts, txs, applied>>
    ELSE LET account == GetAccount(accounts, a)
                owns == OwnershipCheck(a, account, user_role, user_id, NoAuth)
                id == Len(txs) + 1
                created == TransactionCreate(txs, "deposit", a, amount, "none")
                d == ApprovalChain(amount, user_role)
                r == AccountDeposit(account, amount)
            IN IF owns # "none"
               THEN /\ last' = Outcome("deposit", "none", 0, owns, "none",
                                       "none", << >>)
                    /\ UNCHANGED <<accounts, txs, applied>>
               ELSE IF d.approved /\ r.ret
               THEN /\ accounts' = UpdateBalance(accounts, a, r.acc.balance)
                    /\ txs' = UpdateStatus(created, id, "completed")
                    /\ applied' = Append(applied, Changed(accounts, accounts'))
                    /\ last' = Outcome("deposit", "none", id, "ok", "completed",
                                       d.approver,
                                       <<Event("TRANSACTION_COMPLETED", a),
                                         Event("BALANCE_CHANGED", a)>>)
               ELSE /\ txs' = created
                    /\ applied' = Append(applied, 0)
                    /\ last' = Outcome("deposit", "none", id, "ok",
                                       IF d.approved THEN "approved" ELSE "pending",
                                       d.approver, << >>)
                    /\ UNCHANGED accounts

deposit(a, amount, user_role, user_id) ==
    IF a \notin AccountIds
    THEN /\ last' = Outcome("deposit", "none", 0, "AccountNotFound", "none",
                            "none", << >>)
         /\ UNCHANGED <<accounts, txs, applied>>
    ELSE LET account == GetAccount(accounts, a)
                id == Len(txs) + 1
                created == TransactionCreate(txs, "deposit", a, amount, "none")
                d == ApprovalChain(amount, user_role)
                r == AccountDeposit(account, amount)
            IN IF d.approved /\ r.ret
               THEN /\ accounts' = UpdateBalance(accounts, a, r.acc.balance)
                    /\ txs' = UpdateStatus(created, id, "completed")
                    /\ applied' = Append(applied, Changed(accounts, accounts'))
                    /\ last' = Outcome("deposit", "none", id, "ok", "completed",
                                       d.approver,
                                       <<Event("TRANSACTION_COMPLETED", a),
                                         Event("BALANCE_CHANGED", a)>>)
               ELSE /\ txs' = created
                    /\ applied' = Append(applied, 0)
                    /\ last' = Outcome("deposit", "none", id, "ok",
                                       IF d.approved THEN "approved" ELSE "pending",
                                       d.approver, << >>)
                    /\ UNCHANGED accounts

\* ------------------------------------------------------------------------
\* BankingFacadeDB.withdraw
\* ------------------------------------------------------------------------
withdraw(a, amount, user_role, user_id, auth) ==
    LET out(tx, result, status, approver, events) ==
            Outcome("withdraw", "none", tx, result, status, approver, events)
    IN IF a \notin AccountIds
       THEN /\ last' = out(0, "AccountNotFound", "none", "none", << >>)
            /\ UNCHANGED <<accounts, txs, applied>>
       ELSE LET account == GetAccount(accounts, a)
                owns == OwnershipCheck(a, account, user_role, user_id, auth)
                id == Len(txs) + 1
                created == TransactionCreate(txs, "withdrawal", a, amount, "none")
                d == ApprovalChain(amount, user_role)
                r == AccountWithdraw(account, amount)
            IN IF owns # "none"
               THEN /\ last' = out(0, owns, "none", "none", << >>)
                    /\ UNCHANGED <<accounts, txs, applied>>
               ELSE IF ~d.approved
                       THEN /\ txs' = created
                            /\ applied' = Append(applied, 0)
                            /\ last' = out(id, "ok", "pending", d.approver, << >>)
                            /\ UNCHANGED accounts
                       ELSE IF r.err # "none"
                       THEN /\ txs' = UpdateStatus(created, id, "rejected")
                            /\ applied' = Append(applied, 0)
                            /\ last' = out(id, r.err, "rejected", d.approver, << >>)
                            /\ UNCHANGED accounts
                       ELSE IF r.ret
                       THEN /\ accounts' = UpdateBalance(accounts, a, r.acc.balance)
                            /\ txs' = created
                            /\ applied' = Append(applied, Changed(accounts, accounts'))
                            /\ last' = out(id, "ok", "approved", d.approver,
                                           <<Event("TRANSACTION_APPROVED", a),
                                             Event("BALANCE_CHANGED", a)>>)
                       ELSE /\ txs' = created
                            /\ applied' = Append(applied, 0)
                            /\ last' = out(id, "ok", "approved", d.approver, << >>)
                            /\ UNCHANGED accounts

\* ------------------------------------------------------------------------
\* BankingFacadeDB.transfer
\* ------------------------------------------------------------------------
transfer(f, t, amount, user_role, user_id, auth) ==
    LET out(tx, result, status, approver, events) ==
            Outcome("transfer", "none", tx, result, status, approver, events)
    IN IF f \notin AccountIds \/ t \notin AccountIds
       THEN /\ last' = out(0, "AccountNotFound", "none", "none", << >>)
            /\ UNCHANGED <<accounts, txs, applied>>
       ELSE LET from_account == GetAccount(accounts, f)
                to_account == GetAccount(accounts, t)
                owns == OwnershipCheck(f, from_account, user_role, user_id, auth)
                id == Len(txs) + 1
                created == TransactionCreate(txs, "transfer", f, amount, t)
                d == ApprovalChain(amount, user_role)
                chk == AccountTransfer(from_account, amount)
                w == AccountWithdraw(from_account, amount)
                dp == AccountDeposit(to_account, amount)
                err == IF chk.err # "none" THEN chk.err
                       ELSE IF ~chk.ret THEN "InsufficientFunds"
                       ELSE w.err
            IN IF owns # "none"
               THEN /\ last' = out(0, owns, "none", "none", << >>)
                    /\ UNCHANGED <<accounts, txs, applied>>
               ELSE IF ~d.approved
                       THEN /\ txs' = created
                            /\ applied' = Append(applied, 0)
                            /\ last' = out(id, "ok", "pending", d.approver, << >>)
                            /\ UNCHANGED accounts
                       ELSE IF err # "none"
                       THEN /\ txs' = UpdateStatus(created, id, "rejected")
                            /\ applied' = Append(applied, 0)
                            /\ last' = out(id, err, "rejected", d.approver, << >>)
                            /\ UNCHANGED accounts
                       ELSE LET events == <<Event("TRANSACTION_COMPLETED", f),
                                              Event("BALANCE_CHANGED", f),
                                              Event("BALANCE_CHANGED", t)>>
                                completed == UpdateStatus(created, id, "completed")
                            IN /\ accounts' = UpdateBalance(
                                                 UpdateBalance(accounts, f, w.acc.balance),
                                                 t, dp.acc.balance)
                               /\ applied' = Append(applied, Changed(accounts, accounts'))
                               /\ IF Notify(observers, events).raised
                                  THEN \* except Exception (328-333)
                                       /\ txs' = UpdateStatus(completed, id, "rejected")
                                       /\ last' = [out(id, "ok", "rejected", d.approver,
                                                       events)
                                                   EXCEPT !.result = "InvalidTransaction"]
                                  ELSE /\ txs' = completed
                                       /\ last' = out(id, "ok", "completed", d.approver,
                                                      events)

\* ------------------------------------------------------------------------
\* Manual resolution: approve_transaction, complete_transaction,
\* deny_transaction
\* ------------------------------------------------------------------------
\* The role-versus-amount check of approve_transaction (348-352); the same
\* text guards deny_transaction (454-458).
\* A role check without the admin-only tier above 75 000.
ApproverCheck_NoAdminTier(amount, approver_role) ==
    IF amount > 25000 /\ approver_role \notin {"employee", "admin"}
    THEN "UnauthorizedAccess"
    ELSE "none"

ApproverCheck(amount, approver_role) ==
    IF amount > 75000 /\ approver_role # "admin" THEN "UnauthorizedAccess"
    ELSE IF amount > 25000 /\ approver_role \notin {"employee", "admin"}
         THEN "UnauthorizedAccess"
    ELSE "none"

\* A denial check without the admin-only tier above 75 000.
DenierCheck_NoAdminTier(amount, approver_role) ==
    IF amount > 25000 /\ approver_role \notin {"employee", "admin"}
    THEN "UnauthorizedAccess"
    ELSE "none"

DenierCheck(amount, approver_role) ==
    IF amount > 75000 /\ approver_role # "admin" THEN "UnauthorizedAccess"
    ELSE IF amount > 25000 /\ approver_role \notin {"employee", "admin"}
         THEN "UnauthorizedAccess"
    ELSE "none"

\* The status guards of the three entry points.
\* An approve_transaction that accepts a transaction in any status.
ApproveStatusCheck_AnyStatus(tx) == "none"

ApproveStatusCheck(tx) ==
    IF tx.status # "pending" THEN "InvalidTransaction" ELSE "none"

DenyStatusCheck(tx) ==
    IF tx.status # "pending" THEN "InvalidTransaction" ELSE "none"

\* A complete_transaction that accepts a transaction in any status.
CompleteStatusCheck_AnyStatus(tx) == "none"

CompleteStatusCheck(tx) ==
    IF tx.status # "approved" THEN "InvalidTransaction" ELSE "none"

\* The execution block of approve_transaction (355-369), repeated verbatim
\* in complete_transaction (409-423): the balances to persist and the
\* exception raised by the account operations ("none" if none).
Execute(db, tx) ==
    LET account == GetAccount(db, tx.account_id)
    IN CASE tx.transaction_type = "deposit" ->
              LET r == AccountDeposit(account, tx.amount)
              IN [db |-> UpdateBalance(db, tx.account_id, r.acc.balance),
                  err |-> "none"]
         [] tx.transaction_type = "withdrawal" ->
              LET r == AccountWithdraw(account, tx.amount)
              IN IF r.err # "none" THEN [db |-> db, err |-> r.err]
                 ELSE [db |-> UpdateBalance(db, tx.account_id, r.acc.balance),
                       err |-> "none"]
         [] tx.transaction_type = "transfer" ->
              LET target_account == GetAccount(db, tx.target_account_id)
                  w == AccountWithdraw(account, tx.amount)
                  dp == AccountDeposit(target_account, tx.amount)
              IN IF w.err # "none" THEN [db |-> db, err |-> w.err]
                 ELSE [db |-> UpdateBalance(
                                UpdateBalance(db, tx.account_id, w.acc.balance),
                                tx.target_account_id, dp.acc.balance),
                       err |-> "none"]

approve_transaction(id, approver_role) ==
    LET out(result, status, events) ==
            Outcome("approve_transaction", approver_role, id, result, status, "none", events)
        fail(err) == /\ last' = out(err, "none", << >>)
                     /\ UNCHANGED <<accounts, txs, applied>>
    IN IF id > Len(txs) THEN fail("InvalidTransaction")
       ELSE IF ApproveStatusCheck(txs[id]) # "none"
       THEN fail(ApproveStatusCheck(txs[id]))
       ELSE IF ApproverCheck(txs[id].amount, approver_role) # "none"
       THEN fail(ApproverCheck(txs[id].amount, approver_role))
       ELSE LET e == Execute(accounts, txs[id])
            IN IF e.err # "none"
               THEN /\ txs' = UpdateStatus(txs, id, "rejected")
                    /\ last' = out(e.err, "rejected", << >>)
                    /\ UNCHANGED <<accounts, applied>>
               ELSE /\ accounts' = e.db
                    /\ txs' = UpdateStatus(UpdateStatus(txs, id, "approved"),
                                           id, "completed")
                    /\ applied' = [applied EXCEPT ![id] = @ + Changed(accounts, e.db)]
                    /\ last' = out("ok", "completed",
                                   <<Event("TRANSACTION_APPROVED", "none")>>)

complete_transaction(id, executor_role) ==
    LET out(result, status, events) ==
            Outcome("complete_transaction", "none", id, result, status, "none", events)
        fail(err) == /\ last' = out(err, "none", << >>)
                     /\ UNCHANGED <<accounts, txs, applied>>
    IN IF id > Len(txs) THEN fail("InvalidTransaction")
       ELSE IF CompleteStatusCheck(txs[id]) # "none"
       THEN fail(CompleteStatusCheck(txs[id]))
       ELSE LET e == Execute(accounts, txs[id])
            IN IF e.err # "none"
               THEN fail(e.err)
               ELSE /\ accounts' = e.db
                    /\ txs' = UpdateStatus(txs, id, "completed")
                    /\ applied' = [applied EXCEPT ![id] = @ + Changed(accounts, e.db)]
                    /\ last' = out("ok", "completed",
                                   <<Event("TRANSACTION_COMPLETED", "none")>>)

\* A denial that notifies no observer.
deny_transaction_Silent(id, approver_role) ==
    LET out(result, status, events) ==
            Outcome("deny_transaction", approver_role, id, result, status, "none", events)
        fail(err) == /\ last' = out(err, "none", << >>)
                     /\ UNCHANGED <<accounts, txs, applied>>
    IN IF id > Len(txs) THEN fail("InvalidTransaction")
       ELSE IF DenyStatusCheck(txs[id]) # "none"
       THEN fail(DenyStatusCheck(txs[id]))
       ELSE IF DenierCheck(txs[id].amount, approver_role) # "none"
       THEN fail(DenierCheck(txs[id].amount, approver_role))
       ELSE /\ txs' = UpdateStatus(txs, id, "rejected")
            /\ last' = out("ok", "rejected", << >>)
            /\ UNCHANGED <<accounts, applied>>

deny_transaction(id, approver_role) ==
    LET out(result, status, events) ==
            Outcome("deny_transaction", approver_role, id, result, status, "none", events)
        fail(err) == /\ last' = out(err, "none", << >>)
                     /\ UNCHANGED <<accounts, txs, applied>>
    IN IF id > Len(txs) THEN fail("InvalidTransaction")
       ELSE IF DenyStatusCheck(txs[id]) # "none"
       THEN fail(DenyStatusCheck(txs[id]))
       ELSE IF DenierCheck(txs[id].amount, approver_role) # "none"
       THEN fail(DenierCheck(txs[id].amount, approver_role))
       ELSE /\ txs' = UpdateStatus(txs, id, "rejected")
            /\ last' = out("ok", "rejected", <<Event("TRANSACTION_APPROVED", "none")>>)
            /\ UNCHANGED <<accounts, applied>>

\* Every facade call counts against the bound on the length of a run.
More == calls < MaxOps

\* A call made on its own runs to its return or raise: the count of calls
\* advances, the observers stay registered and no handler is left in
\* progress.
Tick == calls' = calls + 1 /\ UNCHANGED <<observers, inflight>>

ChangeAccountState ==
    More /\ \E a \in StateChangeIds, n \in StateNames, r \in Role :
       Tick /\ change_account_state(a, n, r)

Deposit ==
    More /\ \E a \in RequestIds, amt \in Amounts, r \in Role, u \in Users :
       Tick /\ deposit(a, amt, r, u)

Withdraw ==
    More /\ \E a \in RequestIds, amt \in Amounts, r \in Role, c \in Credentials :
       Tick /\ withdraw(a, amt, r, c[1], c[2])

Transfer ==
    More /\ \E p \in TransferPairs, amt \in Amounts, r \in Role, c \in Credentials :
       Tick /\ transfer(p[1], p[2], amt, r, c[1], c[2])

ApproveTransaction ==
    More /\ \E id \in 1..Len(txs), r \in Role : Tick /\ approve_transaction(id, r)

CompleteTransaction ==
    More /\ \E id \in 1..Len(txs), r \in Role : Tick /\ complete_transaction(id, r)

DenyTransaction ==
    More /\ \E id \in 1..Len(txs), r \in Role : Tick /\ deny_transaction(id, r)

Next ==
    \/ ChangeAccountState
    \/ Deposit
    \/ Withdraw
    \/ Transfer
    \/ ApproveTransaction
    \/ CompleteTransaction
    \/ DenyTransaction

Spec == Init /\ [][Next]_vars

\* ------------------------------------------------------------------------
\* The facade with any observers attached: each of the two registered
\* observers either handles every event or raises from update().
\* ------------------------------------------------------------------------
ObsInit == \E obs \in ObserverLists : Start(obs)

ObsSpec == ObsInit /\ [][Next]_vars

\* ------------------------------------------------------------------------
\* The subject by itself (patterns/observer/observer.py): observers are
\* attached and detached, and the facade's operations notify them of the
\* events they emit, one notifyObserver call per event.
\* ------------------------------------------------------------------------
BusCalls == 4

BusMore == calls < BusCalls

\* The events one facade operation emits: a deposit, a transfer, a state
\* change, an approval that executes a deposit.
Batches ==
    {<<Event("TRANSACTION_COMPLETED", "A"), Event("BALANCE_CHANGED", "A")>>,
     <<Event("TRANSACTION_COMPLETED", "A"), Event("BALANCE_CHANGED", "A"),
       Event("BALANCE_CHANGED", "B")>>,
     <<Event("ACCOUNT_STATE_CHANGED", "B")>>,
     <<Event("TRANSACTION_APPROVED", "B"), Event("BALANCE_CHANGED", "B")>>}

Subscribed(obs) == {obs[i] : i \in DOMAIN obs}

\* list.remove: the first occurrence goes, the rest keep their order.
RECURSIVE Remove(_, _)
Remove(obs, o) ==
    IF obs = << >> THEN << >>
    ELSE IF Head(obs) = o THEN Tail(obs)
    ELSE <<Head(obs)>> \o Remove(Tail(obs), o)

\* The update() calls one notifyObserver(e) makes, in the order it makes
\* them: the observers in list order, up to one that raises.
RECURSIVE Updates(_, _)
Updates(obs, e) ==
    IF obs = << >> THEN << >>
    ELSE IF Kind(Head(obs)) = "raises"
    THEN <<[observer |-> Head(obs), event |-> e]>>
    ELSE <<[observer |-> Head(obs), event |-> e]>> \o Updates(Tail(obs), e)

\* The update() calls of an operation that emits events in this order; an
\* exception from update() ends the operation's notifications.
RECURSIVE Delivered(_, _)
Delivered(obs, events) ==
    IF events = << >> THEN << >>
    ELSE LET first == Updates(obs, Head(events))
         IN IF \E i \in DOMAIN obs : Kind(obs[i]) = "raises"
            THEN first
            ELSE first \o Delivered(obs, Tail(events))

BusOutcome(op, events) ==
    Outcome(op, "none", 0, "ok", "none", "none", events)

\* Attaching without looking whether the observer is already attached.
addObserver_NoMembershipCheck(o) ==
    /\ observers' = Append(observers, o)
    /\ last' = BusOutcome("addObserver", << >>)

addObserver(o) ==
    /\ observers' = IF o \in Subscribed(observers) THEN observers
                    ELSE Append(observers, o)
    /\ last' = BusOutcome("addObserver", << >>)

removeObserver(o) ==
    /\ observers' = IF o \in Subscribed(observers) THEN Remove(observers, o)
                    ELSE observers
    /\ last' = BusOutcome("removeObserver", << >>)

notifyObserver(events) ==
    /\ last' = BusOutcome("notifyObserver", events)
    /\ UNCHANGED observers

AddObserver ==
    /\ BusMore
    /\ \E o \in ConcreteObservers : addObserver(o)
    /\ calls' = calls + 1
    /\ UNCHANGED <<accounts, txs, applied, inflight>>

RemoveObserver ==
    /\ BusMore
    /\ \E o \in ConcreteObservers : removeObserver(o)
    /\ calls' = calls + 1
    /\ UNCHANGED <<accounts, txs, applied, inflight>>

NotifyObserver ==
    /\ BusMore
    /\ \E events \in Batches : notifyObserver(events)
    /\ calls' = calls + 1
    /\ UNCHANGED <<accounts, txs, applied, inflight>>

BusNext ==
    \/ AddObserver
    \/ RemoveObserver
    \/ NotifyObserver

\* Subject.__init__ leaves the list of observers empty.
BusInit == Start(<< >>)

BusSpec == BusInit /\ [][BusNext]_vars

\* ------------------------------------------------------------------------
\* Requests handled at the same time.  Every repository call is a query or
\* a commit of its own (repository.py 286-291, 356-360, 400-415, 441-449)
\* and the facade takes no lock and checks no version, so between two
\* repository calls of one handler the other handler may run.  A step below
\* is one repository call together with the computation that follows it up
\* to the next one.  The requests are deposits into account A and approvals
\* of the transactions they create.
\* ------------------------------------------------------------------------
RaceCalls == 3

RaceAccounts == {"A"}

RaceAmounts == {200, 30000}

RaceRoles == {"customer", "employee"}

RaceMore == calls < RaceCalls

Handler(p) == IF p \in DOMAIN inflight THEN inflight[p] ELSE Idle

Step(p, c) == inflight' = [q \in DOMAIN inflight \cup {p} |->
                             IF q = p THEN c ELSE inflight[q]]

\* deposit 111: get_account, by a handler that may take a call as long as
\* fewer than limit calls were taken.
DepositLoad(limit) ==
    \E p \in Procs :
       /\ calls < limit
       /\ Handler(p).pc = "idle"
       /\ \E a \in RaceAccounts, amt \in RaceAmounts, r \in RaceRoles :
             Step(p, [Idle EXCEPT !.pc = "deposit_create", !.op = "deposit",
                                  !.account_id = a, !.amount = amt, !.role = r,
                                  !.account = GetAccount(accounts, a)])
       /\ calls' = calls + 1
       /\ UNCHANGED <<accounts, txs, applied, last, observers>>

RaceDepositLoad == DepositLoad(RaceCalls)

\* deposit 117-128: the row is created, the chain decides and the loaded
\* Account takes the deposit; the call returns here unless both succeed.
RaceDepositCreate ==
    \E p \in Procs :
       LET c == Handler(p)
           d == ApprovalChain(c.amount, c.role)
           r == AccountDeposit(c.account, c.amount)
       IN /\ c.pc = "deposit_create"
          /\ txs' = TransactionCreate(txs, "deposit", c.account_id, c.amount, "none")
          /\ applied' = Append(applied, 0)
          /\ IF d.approved /\ r.ret
             THEN Step(p, [c EXCEPT !.pc = "deposit_balance", !.tx = Len(txs) + 1,
                                    !.account = r.acc])
             ELSE Step(p, [c EXCEPT !.pc = "idle", !.tx = Len(txs) + 1,
                                    !.result = "ok"])
          /\ UNCHANGED <<accounts, last, calls, observers>>

\* deposit 130: update_balance with the balance of the loaded Account.
RaceDepositBalance ==
    \E p \in Procs :
       LET c == Handler(p)
       IN /\ c.pc = "deposit_balance"
          /\ accounts' = UpdateBalance(accounts, c.account_id, c.account.balance)
          /\ applied' = [applied EXCEPT ![c.tx] = @ + 1]
          /\ Step(p, [c EXCEPT !.pc = "deposit_status", !.wrote = TRUE])
          /\ UNCHANGED <<txs, last, calls, observers>>

\* deposit 132-152: update_status(COMPLETED), the notifications, return.
RaceDepositStatus ==
    \E p \in Procs :
       LET c == Handler(p)
       IN /\ c.pc = "deposit_status"
          /\ txs' = UpdateStatus(txs, c.tx, "completed")
          /\ Step(p, [c EXCEPT !.pc = "idle", !.result = "ok"])
          /\ UNCHANGED <<accounts, applied, last, calls, observers>>

\* approve_transaction 339-352: the row is read and the status and role
\* checks are made on what was read.
ApproveRead(limit) ==
    \E p \in Procs :
       /\ calls < limit
       /\ Handler(p).pc = "idle"
       /\ \E id \in 1..Len(txs), r \in RaceRoles :
             LET err == IF ApproveStatusCheck(txs[id]) # "none"
                        THEN ApproveStatusCheck(txs[id])
                        ELSE ApproverCheck(txs[id].amount, r)
                 c == [Idle EXCEPT !.op = "approve_transaction", !.tx = id,
                                   !.role = r, !.amount = txs[id].amount,
                                   !.account_id = txs[id].account_id]
             IN IF err # "none"
                THEN Step(p, [c EXCEPT !.result = err])
                ELSE Step(p, [c EXCEPT !.pc = "approve_load"])
       /\ calls' = calls + 1
       /\ UNCHANGED <<accounts, txs, applied, last, observers>>

RaceApproveRead == ApproveRead(RaceCalls)

\* approve_transaction 355: get_account.
RaceApproveLoad ==
    \E p \in Procs :
       LET c == Handler(p)
       IN /\ c.pc = "approve_load"
          /\ Step(p, [c EXCEPT !.pc = "approve_balance",
                               !.account = GetAccount(accounts, c.account_id)])
          /\ UNCHANGED <<accounts, txs, applied, last, calls, observers>>

\* approve_transaction 358-360, the branch of a deposit (the only type of
\* transaction RaceSpec creates): the loaded Account takes the deposit and
\* its balance is written whatever deposit() returned.
RaceApproveBalance ==
    \E p \in Procs :
       LET c == Handler(p)
           r == AccountDeposit(c.account, c.amount)
       IN /\ c.pc = "approve_balance"
          /\ txs[c.tx].transaction_type = "deposit"
          /\ accounts' = UpdateBalance(accounts, c.account_id, r.acc.balance)
          /\ applied' = [applied EXCEPT ![c.tx] = @ + (IF r.ret THEN 1 ELSE 0)]
          /\ Step(p, [c EXCEPT !.pc = "approve_status", !.wrote = r.ret])
          /\ UNCHANGED <<txs, last, calls, observers>>

\* approve_transaction 372-395: update_status(APPROVED), then
\* update_status(COMPLETED), the notification, return True.
RaceApproveStatus ==
    \E p \in Procs :
       LET c == Handler(p)
       IN /\ c.pc = "approve_status"
          /\ txs' = UpdateStatus(UpdateStatus(txs, c.tx, "approved"),
                                 c.tx, "completed")
          /\ Step(p, [c EXCEPT !.pc = "idle", !.result = "ok"])
          /\ UNCHANGED <<accounts, applied, last, calls, observers>>

RaceNext ==
    \/ RaceDepositLoad
    \/ RaceDepositCreate
    \/ RaceDepositBalance
    \/ RaceDepositStatus
    \/ RaceApproveRead
    \/ RaceApproveLoad
    \/ RaceApproveBalance
    \/ RaceApproveStatus

RaceSpec == Init /\ [][RaceNext]_vars

\* ------------------------------------------------------------------------
\* Requests that take money out, handled at the same time: withdrawals and
\* transfers made by the owner of the source account, deposits into account
\* A, and the approval or denial of the transactions left pending, one
\* repository call at a time as above.
\* ------------------------------------------------------------------------
DebitCalls == 2

DebitMore == calls < DebitCalls

DebitAmounts == {200, 30000}

DebitPairs == {<<"A", "B">>, <<"B", "A">>}

\* withdraw 164-180: get_account and the ownership check.
RaceWithdrawLoad ==
    \E p \in Procs :
       /\ DebitMore
       /\ Handler(p).pc = "idle"
       /\ \E a \in AccountIds, amt \in DebitAmounts :
             LET account == GetAccount(accounts, a)
                 owns == OwnershipCheck(a, account, "customer",
                                        InitialOwner[a], NoAuth)
                 c == [Idle EXCEPT !.op = "withdraw", !.account_id = a,
                                   !.amount = amt, !.role = "customer",
                                   !.account = account]
             IN IF owns # "none"
                THEN Step(p, [c EXCEPT !.result = owns])
                ELSE Step(p, [c EXCEPT !.pc = "withdraw_create"])
       /\ calls' = calls + 1
       /\ UNCHANGED <<accounts, txs, applied, last, observers>>

\* withdraw 187-198: the row is created, the chain decides and the loaded
\* Account takes the withdrawal, which may raise.
RaceWithdrawCreate ==
    \E p \in Procs :
       LET c == Handler(p)
           d == ApprovalChain(c.amount, c.role)
           r == AccountWithdraw(c.account, c.amount)
           n == [c EXCEPT !.tx = Len(txs) + 1]
       IN /\ c.pc = "withdraw_create"
          /\ txs' = TransactionCreate(txs, "withdrawal", c.account_id, c.amount,
                                      "none")
          /\ applied' = Append(applied, 0)
          /\ IF ~d.approved
             THEN Step(p, [n EXCEPT !.pc = "idle", !.result = "ok"])
             ELSE IF r.err # "none"
             THEN Step(p, [n EXCEPT !.pc = "withdraw_reject", !.result = r.err])
             ELSE IF r.ret
             THEN Step(p, [n EXCEPT !.pc = "withdraw_balance", !.account = r.acc])
             ELSE Step(p, [n EXCEPT !.pc = "idle", !.result = "ok"])
          /\ UNCHANGED <<accounts, last, calls, observers>>

\* withdraw 200-217: update_balance with the balance of the loaded Account,
\* the notifications, return.
RaceWithdrawBalance ==
    \E p \in Procs :
       LET c == Handler(p)
       IN /\ c.pc = "withdraw_balance"
          /\ accounts' = UpdateBalance(accounts, c.account_id, c.account.balance)
          /\ applied' = [applied EXCEPT ![c.tx] = @ + 1]
          /\ Step(p, [c EXCEPT !.pc = "idle", !.wrote = TRUE, !.result = "ok"])
          /\ UNCHANGED <<txs, last, calls, observers>>

\* withdraw 218-221: update_status(REJECTED) and the exception goes on.
RaceWithdrawReject ==
    \E p \in Procs :
       LET c == Handler(p)
       IN /\ c.pc = "withdraw_reject"
          /\ txs' = UpdateStatus(txs, c.tx, "rejected")
          /\ Step(p, [c EXCEPT !.pc = "idle"])
          /\ UNCHANGED <<accounts, applied, last, calls, observers>>

\* transfer 236: get_account of the source.
RaceTransferLoad ==
    \E p \in Procs :
       /\ DebitMore
       /\ Handler(p).pc = "idle"
       /\ \E pair \in DebitPairs, amt \in DebitAmounts :
             Step(p, [Idle EXCEPT !.pc = "transfer_load", !.op = "transfer",
                                  !.account_id = pair[1],
                                  !.target_account_id = pair[2],
                                  !.amount = amt, !.role = "customer",
                                  !.account = GetAccount(accounts, pair[1])])
       /\ calls' = calls + 1
       /\ UNCHANGED <<accounts, txs, applied, last, observers>>

\* transfer 237-261: get_account of the target and the ownership check.
RaceTransferLoadTarget ==
    \E p \in Procs :
       LET c == Handler(p)
           owns == OwnershipCheck(c.account_id, c.account, c.role,
                                  InitialOwner[c.account_id], NoAuth)
       IN /\ c.pc = "transfer_load"
          /\ IF owns # "none"
             THEN Step(p, [c EXCEPT !.pc = "idle", !.result = owns])
             ELSE Step(p, [c EXCEPT !.pc = "transfer_create",
                                    !.target = GetAccount(accounts,
                                                          c.target_account_id)])
          /\ UNCHANGED <<accounts, txs, applied, last, calls, observers>>

\* transfer 267-286: the row is created, the chain decides, the source
\* Account checks and takes the withdrawal and the target Account takes the
\* deposit.
RaceTransferCreate ==
    \E p \in Procs :
       LET c == Handler(p)
           d == ApprovalChain(c.amount, c.role)
           chk == AccountTransfer(c.account, c.amount)
           w == AccountWithdraw(c.account, c.amount)
           dp == AccountDeposit(c.target, c.amount)
           err == IF chk.err # "none" THEN chk.err
                  ELSE IF ~chk.ret THEN "InsufficientFunds"
                  ELSE w.err
           n == [c EXCEPT !.tx = Len(txs) + 1]
       IN /\ c.pc = "transfer_create"
          /\ txs' = TransactionCreate(txs, "transfer", c.account_id, c.amount,
                                      c.target_account_id)
          /\ applied' = Append(applied, 0)
          /\ IF ~d.approved
             THEN Step(p, [n EXCEPT !.pc = "idle", !.result = "ok"])
             ELSE IF err # "none"
             THEN Step(p, [n EXCEPT !.pc = "transfer_reject", !.result = err])
             ELSE Step(p, [n EXCEPT !.pc = "transfer_debit", !.account = w.acc,
                                    !.target = dp.acc])
          /\ UNCHANGED <<accounts, last, calls, observers>>

\* transfer 289: update_balance of the source.
RaceTransferDebit ==
    \E p \in Procs :
       LET c == Handler(p)
       IN /\ c.pc = "transfer_debit"
          /\ accounts' = UpdateBalance(accounts, c.account_id, c.account.balance)
          /\ applied' = [applied EXCEPT ![c.tx] = @ + 1]
          /\ Step(p, [c EXCEPT !.pc = "transfer_credit", !.wrote = TRUE])
          /\ UNCHANGED <<txs, last, calls, observers>>

\* transfer 290: update_balance of the target.
RaceTransferCredit ==
    \E p \in Procs :
       LET c == Handler(p)
       IN /\ c.pc = "transfer_credit"
          /\ accounts' = UpdateBalance(accounts, c.target_account_id,
                                       c.target.balance)
          /\ Step(p, [c EXCEPT !.pc = "transfer_status"])
          /\ UNCHANGED <<txs, applied, last, calls, observers>>

\* transfer 293-321: update_status(COMPLETED), the notifications, return.
RaceTransferStatus ==
    \E p \in Procs :
       LET c == Handler(p)
       IN /\ c.pc = "transfer_status"
          /\ txs' = UpdateStatus(txs, c.tx, "completed")
          /\ Step(p, [c EXCEPT !.pc = "idle", !.result = "ok"])
          /\ UNCHANGED <<accounts, applied, last, calls, observers>>

\* transfer 322-327: update_status(REJECTED) and the exception goes on.
RaceTransferReject ==
    \E p \in Procs :
       LET c == Handler(p)
       IN /\ c.pc = "transfer_reject"
          /\ txs' = UpdateStatus(txs, c.tx, "rejected")
          /\ Step(p, [c EXCEPT !.pc = "idle"])
          /\ UNCHANGED <<accounts, applied, last, calls, observers>>

\* approve_transaction 361-363, the branch of a withdrawal: the loaded
\* Account takes the withdrawal and, unless that raised, its balance is
\* written.
RaceApproveWithdrawal ==
    \E p \in Procs :
       LET c == Handler(p)
           r == AccountWithdraw(c.account, c.amount)
       IN /\ c.pc = "approve_balance"
          /\ txs[c.tx].transaction_type = "withdrawal"
          /\ IF r.err # "none"
             THEN /\ Step(p, [c EXCEPT !.pc = "approve_reject", !.result = r.err])
                  /\ UNCHANGED <<accounts, applied>>
             ELSE /\ accounts' = UpdateBalance(accounts, c.account_id,
                                               r.acc.balance)
                  /\ applied' = [applied EXCEPT
                                    ![c.tx] = @ + (IF r.ret THEN 1 ELSE 0)]
                  /\ Step(p, [c EXCEPT !.pc = "approve_status", !.wrote = r.ret])
          /\ UNCHANGED <<txs, last, calls, observers>>

\* approve_transaction 365, the branch of a transfer: get_account of the
\* target.
RaceApproveTarget ==
    \E p \in Procs :
       LET c == Handler(p)
           t == txs[c.tx].target_account_id
       IN /\ c.pc = "approve_balance"
          /\ txs[c.tx].transaction_type = "transfer"
          /\ Step(p, [c EXCEPT !.pc = "approve_debit", !.target_account_id = t,
                               !.target = GetAccount(accounts, t)])
          /\ UNCHANGED <<accounts, txs, applied, last, calls, observers>>

\* approve_transaction 366-368: the source Account takes the withdrawal,
\* the target Account the deposit, and the source balance is written.
RaceApproveDebit ==
    \E p \in Procs :
       LET c == Handler(p)
           w == AccountWithdraw(c.account, c.amount)
           dp == AccountDeposit(c.target, c.amount)
       IN /\ c.pc = "approve_debit"
          /\ IF w.err # "none"
             THEN /\ Step(p, [c EXCEPT !.pc = "approve_reject", !.result = w.err])
                  /\ UNCHANGED <<accounts, applied>>
             ELSE /\ accounts' = UpdateBalance(accounts, c.account_id,
                                               w.acc.balance)
                  /\ applied' = [applied EXCEPT
                                    ![c.tx] = @ + (IF w.ret THEN 1 ELSE 0)]
                  /\ Step(p, [c EXCEPT !.pc = "approve_credit", !.wrote = w.ret,
                                       !.account = w.acc, !.target = dp.acc])
          /\ UNCHANGED <<txs, last, calls, observers>>

\* approve_transaction 369: update_balance of the target.
RaceApproveCredit ==
    \E p \in Procs :
       LET c == Handler(p)
       IN /\ c.pc = "approve_credit"
          /\ accounts' = UpdateBalance(accounts, c.target_account_id,
                                       c.target.balance)
          /\ Step(p, [c EXCEPT !.pc = "approve_status"])
          /\ UNCHANGED <<txs, applied, last, calls, observers>>

\* approve_transaction 382-386: update_status(REJECTED) and the exception
\* goes on.
RaceApproveReject ==
    \E p \in Procs :
       LET c == Handler(p)
       IN /\ c.pc = "approve_reject"
          /\ txs' = UpdateStatus(txs, c.tx, "rejected")
          /\ Step(p, [c EXCEPT !.pc = "idle"])
          /\ UNCHANGED <<accounts, applied, last, calls, observers>>

\* deny_transaction 445-458: the row is read and the status and role checks
\* are made on what was read.
RaceDenyRead ==
    \E p \in Procs :
       /\ DebitMore
       /\ Handler(p).pc = "idle"
       /\ \E id \in 1..Len(txs), r \in RaceRoles :
             LET err == IF DenyStatusCheck(txs[id]) # "none"
                        THEN DenyStatusCheck(txs[id])
                        ELSE DenierCheck(txs[id].amount, r)
                 c == [Idle EXCEPT !.op = "deny_transaction", !.tx = id,
                                   !.role = r, !.amount = txs[id].amount,
                                   !.account_id = txs[id].account_id]
             IN IF err # "none"
                THEN Step(p, [c EXCEPT !.result = err])
                ELSE Step(p, [c EXCEPT !.pc = "deny_status"])
       /\ calls' = calls + 1
       /\ UNCHANGED <<accounts, txs, applied, last, observers>>

\* deny_transaction 461-473: update_status(REJECTED), the notification,
\* return True.
RaceDenyStatus ==
    \E p \in Procs :
       LET c == Handler(p)
       IN /\ c.pc = "deny_status"
          /\ txs' = UpdateStatus(txs, c.tx, "rejected")
          /\ Step(p, [c EXCEPT !.pc = "idle", !.result = "ok"])
          /\ UNCHANGED <<accounts, applied, last, calls, observers>>

DebitDepositLoad == DepositLoad(DebitCalls)

DebitApproveRead == ApproveRead(DebitCalls)

DebitNext ==
    \/ DebitDepositLoad
    \/ RaceDepositCreate
    \/ RaceDepositBalance
    \/ RaceDepositStatus
    \/ DebitApproveRead
    \/ RaceApproveLoad
    \/ RaceApproveBalance
    \/ RaceApproveStatus
    \/ RaceWithdrawLoad
    \/ RaceWithdrawCreate
    \/ RaceWithdrawBalance
    \/ RaceWithdrawReject
    \/ RaceTransferLoad
    \/ RaceTransferLoadTarget
    \/ RaceTransferCreate
    \/ RaceTransferDebit
    \/ RaceTransferCredit
    \/ RaceTransferStatus
    \/ RaceTransferReject
    \/ RaceApproveWithdrawal
    \/ RaceApproveTarget
    \/ RaceApproveDebit
    \/ RaceApproveCredit
    \/ RaceApproveReject
    \/ RaceDenyRead
    \/ RaceDenyStatus

DebitSpec == Init /\ [][DebitNext]_vars

\* ------------------------------------------------------------------------
\* The tiers at their boundaries: requests on account B of the amounts on
\* either side of each threshold, by every role, and their manual
\* resolution.
\* ------------------------------------------------------------------------
TierAmounts == {1, 25000, 25001, 75000, 75001}

TierDeposit ==
    More /\ \E amt \in TierAmounts, r \in Role :
       Tick /\ deposit("B", amt, r, "u1")

TierWithdraw ==
    More /\ \E amt \in TierAmounts, r \in Role :
       Tick /\ withdraw("B", amt, r, "u2", NoAuth)

TierNext ==
    \/ TierDeposit
    \/ TierWithdraw
    \/ ApproveTransaction
    \/ DenyTransaction

TierSpec == Init /\ [][TierNext]_vars

\* ------------------------------------------------------------------------
\* Vocabulary of the properties
\* ------------------------------------------------------------------------
Requests == {"deposit", "withdraw", "transfer"}

\* The last call created a transaction (it got past lookup and ownership).
Created == last.op \in Requests /\ last.tx # 0

\* The approval chain approved the transaction the last call created.
ChainApproved == Created /\ last.approver # "none"

Terminal == {"completed", "rejected"}

Balances(db) == [a \in AccountIds |-> db[a].balance]

\* ------------------------------------------------------------------------
\* C1  Transfer atomicity: a chain-approved transfer whose target account is
\* Closed fails, changes no persisted balance and is marked Rejected.
\* ------------------------------------------------------------------------
C1_TransferToClosedTargetFails ==
    (/\ last.op = "transfer"
     /\ ChainApproved
     /\ accounts[txs[last.tx].target_account_id].state = "Closed")
    => (/\ last.result # "ok"
        /\ applied[last.tx] = 0
        /\ txs[last.tx].status = "rejected")

\* ------------------------------------------------------------------------
\* C2  Each transaction's balance effect reaches the persisted balances at
\* most once over any sequence of facade calls.
\* ------------------------------------------------------------------------
C2_EffectAppliedAtMostOnce ==
    \A id \in 1..Len(txs) : applied[id] <= 1

\* ------------------------------------------------------------------------
\* C3  A deposit, withdrawal or transfer of a positive amount A <= 25 000
\* that neither insufficient funds nor the account state blocks returns a
\* transaction with status Completed, the balance changed by A.
\* ------------------------------------------------------------------------
C3_AutoTierCompletes ==
    (/\ Created
     /\ last.result = "ok"
     /\ txs[last.tx].amount > 0
     /\ txs[last.tx].amount <= 25000
     /\ last.op \in {"withdraw", "transfer"}
           => accounts[txs[last.tx].account_id].state = "Active"
     /\ last.op = "deposit"
           => accounts[txs[last.tx].account_id].state # "Closed"
     /\ last.op = "transfer"
           => accounts[txs[last.tx].target_account_id].state # "Closed")
    => (/\ last.status = "completed"
        /\ applied[last.tx] = 1)

\* ------------------------------------------------------------------------
\* C4  As claimed: a chain-approved withdrawal whose amount exceeds the
\* account's balance fails with InsufficientFunds, leaves the persisted
\* balance unchanged and the transaction Rejected.
\* ------------------------------------------------------------------------
\* The step is a request that created transaction last'.tx.
Creates == last'.op \in Requests /\ Len(txs') = Len(txs) + 1

\* The step is a request made with role r that created last'.tx.
RequestedBy(r) ==
    LET tx == txs'[last'.tx]
    IN CASE last'.op = "deposit" ->
              \E u \in Users : deposit(tx.account_id, tx.amount, r, u)
         [] last'.op = "withdraw" ->
              \E c \in Credentials :
                 withdraw(tx.account_id, tx.amount, r, c[1], c[2])
         [] last'.op = "transfer" ->
              \E c \in Credentials :
                 transfer(tx.account_id, tx.target_account_id, tx.amount, r,
                          c[1], c[2])
         [] OTHER -> FALSE

C4_OverdrawAlwaysInsufficientFunds ==
    [][(/\ Creates
        /\ last'.op = "withdraw"
        /\ last'.approver # "none"
        /\ txs'[last'.tx].amount > accounts[txs'[last'.tx].account_id].balance)
       => (/\ last'.result = "InsufficientFunds"
           /\ accounts' = accounts
           /\ txs'[last'.tx].status = "rejected")]_vars

\* C4 as amended: the same of a positive amount withdrawn from an Active
\* account.
C4_OverdrawOfActiveAccountRejected ==
    [][(/\ Creates
        /\ last'.op = "withdraw"
        /\ last'.approver # "none"
        /\ txs'[last'.tx].amount > 0
        /\ txs'[last'.tx].amount > accounts[txs'[last'.tx].account_id].balance
        /\ accounts[txs'[last'.tx].account_id].state = "Active")
       => (/\ last'.result = "InsufficientFunds"
           /\ accounts' = accounts
           /\ txs'[last'.tx].status = "rejected")]_vars

C4_Witness ==
    /\ last.op = "withdraw"
    /\ ChainApproved
    /\ last.result = "InsufficientFunds"
    /\ accounts[txs[last.tx].account_id].state = "Active"
    /\ txs[last.tx].amount > accounts[txs[last.tx].account_id].balance
    /\ txs[last.tx].status = "rejected"

\* ------------------------------------------------------------------------
\* C5  Every authorized withdraw request on a Frozen account fails with
\* FrozenAccount and leaves the balance unchanged, whatever the amount and
\* the acting role.
\* ------------------------------------------------------------------------
C5_FrozenWithdrawAlwaysFails ==
    (/\ last.op = "withdraw"
     /\ Created
     /\ accounts[txs[last.tx].account_id].state = "Frozen")
    => (/\ last.result = "FrozenAccount"
        /\ applied[last.tx] = 0)

\* ------------------------------------------------------------------------
\* C6  An approved deposit of a positive amount to a Frozen account
\* succeeds, whether the chain approved it for the caller's role or an
\* approver approves it later: the persisted balance grows by exactly the
\* amount and the transaction becomes Completed.
\* ------------------------------------------------------------------------
C6_FrozenDepositSucceeds ==
    [][/\ (/\ Creates
           /\ last'.op = "deposit"
           /\ txs'[last'.tx].amount > 0
           /\ accounts[txs'[last'.tx].account_id].state = "Frozen")
          => \A r \in Role :
                (ApprovalChain(txs'[last'.tx].amount, r).approved /\ RequestedBy(r))
                => (/\ last'.result = "ok"
                    /\ last'.status = "completed"
                    /\ txs'[last'.tx].status = "completed"
                    /\ Balances(accounts') =
                          [Balances(accounts) EXCEPT
                              ![txs'[last'.tx].account_id] =
                                  @ + txs'[last'.tx].amount])
       /\ (/\ last'.op = "approve_transaction"
           /\ txs[last'.tx].transaction_type = "deposit"
           /\ txs[last'.tx].status = "pending"
           /\ txs[last'.tx].amount > 0
           /\ accounts[txs[last'.tx].account_id].state = "Frozen"
           /\ ApproverCheck(txs[last'.tx].amount, last'.role) = "none")
          => (/\ last'.result = "ok"
              /\ txs'[last'.tx].status = "completed"
              /\ Balances(accounts') =
                    [Balances(accounts) EXCEPT
                        ![txs[last'.tx].account_id] = @ + txs[last'.tx].amount])]_vars

C6_Witness ==
    /\ last.op = "approve_transaction"
    /\ last.result = "ok"
    /\ txs[last.tx].transaction_type = "deposit"
    /\ txs[last.tx].amount > 0
    /\ accounts[txs[last.tx].account_id].state = "Frozen"
    /\ accounts[txs[last.tx].account_id].balance =
          InitialBalance[txs[last.tx].account_id] + txs[last.tx].amount
    /\ txs[last.tx].status = "completed"

\* ------------------------------------------------------------------------
\* C7  Closed is terminal: once an account's state is Closed it stays
\* Closed in every later state, whatever state change is requested.
\* ------------------------------------------------------------------------
C7_ClosedIsTerminal ==
    [][\A a \in AccountIds :
          accounts[a].state = "Closed" => accounts'[a].state = "Closed"]_vars

\* ------------------------------------------------------------------------
\* C8  approve_transaction or deny_transaction on a transaction that is
\* already Completed or Rejected fails with InvalidTransaction, changes no
\* balance and leaves the transaction's status as it was.
\* ------------------------------------------------------------------------
C8_TerminalResolveFails ==
    [][(/\ last'.op \in {"approve_transaction", "deny_transaction"}
        /\ txs[last'.tx].status \in Terminal)
       => (/\ last'.result = "InvalidTransaction"
           /\ accounts' = accounts
           /\ txs' = txs)]_vars

C8_Witness ==
    /\ last.op = "approve_transaction"
    /\ last.result = "InvalidTransaction"
    /\ txs[last.tx].status = "completed"
    /\ applied[last.tx] = 1

\* ------------------------------------------------------------------------
\* C9  A transaction with 25 000 < amount <= 75 000 requested by a Customer
\* is created Pending with no balance changed, and it stays Pending and
\* unexecuted through every other call until an Employee or Admin approves
\* or denies it.
\* ------------------------------------------------------------------------
MidTier(amt) == 25000 < amt /\ amt <= 75000

C9_CustomerMidTierStaysPending ==
    [][/\ (/\ Creates
           /\ MidTier(txs'[last'.tx].amount)
           /\ RequestedBy("customer"))
          => (/\ txs'[last'.tx].status = "pending"
              /\ last'.status = "pending"
              /\ applied'[last'.tx] = 0
              /\ accounts' = accounts)
       /\ \A id \in 1..Len(txs) :
            (/\ MidTier(txs[id].amount)
             /\ txs[id].status = "pending"
             /\ applied[id] = 0
             /\ (txs'[id] # txs[id] \/ applied'[id] # 0))
            => (/\ last'.op \in {"approve_transaction", "deny_transaction"}
                /\ last'.tx = id
                /\ last'.role \in {"employee", "admin"})]_vars

C9_Witness ==
    /\ last.op = "approve_transaction"
    /\ last.role = "customer"
    /\ last.result = "UnauthorizedAccess"
    /\ MidTier(txs[last.tx].amount)
    /\ txs[last.tx].status = "pending"
    /\ applied[last.tx] = 0
    /\ Balances(accounts) = InitialBalance

\* ------------------------------------------------------------------------
\* C10  A transaction with amount > 75 000 becomes Completed only through
\* an Admin, as the requesting role or as the approver; an Employee's
\* approve_transaction on it fails with UnauthorizedAccess and leaves it
\* Pending and every balance unchanged.
\* ------------------------------------------------------------------------
C10_OverRoleTierNeedsAdmin ==
    [][/\ \A id \in 1..Len(txs') :
            (/\ txs'[id].amount > 75000
             /\ txs'[id].status = "completed"
             /\ (id > Len(txs) \/ txs[id].status # "completed"))
            => \/ /\ last'.op = "approve_transaction"
                  /\ last'.tx = id
                  /\ last'.role = "admin"
               \/ /\ Creates
                  /\ last'.tx = id
                  /\ \A r \in Role \ {"admin"} : ~RequestedBy(r)
       /\ (/\ last'.op = "approve_transaction"
           /\ last'.role = "employee"
           /\ txs[last'.tx].amount > 75000
           /\ txs[last'.tx].status = "pending")
          => (/\ last'.result = "UnauthorizedAccess"
              /\ txs' = txs
              /\ accounts' = accounts)]_vars

C10_Witness ==
    /\ last.op = "approve_transaction"
    /\ last.role = "employee"
    /\ last.result = "UnauthorizedAccess"
    /\ txs[last.tx].amount > 75000
    /\ txs[last.tx].status = "pending"
    /\ applied[last.tx] = 0

C10_AdminCompletes ==
    /\ last.op = "approve_transaction"
    /\ last.role = "admin"
    /\ last.result = "ok"
    /\ txs[last.tx].amount > 75000
    /\ txs[last.tx].status = "completed"

\* ------------------------------------------------------------------------
\* C11  A transfer the chain left Pending changes no balance when it is
\* created; when an authorized role approves it, with an Active source
\* holding the amount and a target that accepts deposits, the source's
\* persisted balance decreases by the amount, the target's increases by the
\* amount and the status becomes Completed.
\* ------------------------------------------------------------------------
\* The balances after amt has left account f and arrived in account t.
Moved(b, f, t, amt) ==
    LET debited == [b EXCEPT ![f] = @ - amt]
    IN [debited EXCEPT ![t] = @ + amt]

C11_ApprovedPendingTransferMovesFunds ==
    [][/\ (Creates /\ last'.op = "transfer" /\ last'.approver = "none")
          => accounts' = accounts
       /\ (/\ last'.op = "approve_transaction"
           /\ txs[last'.tx].transaction_type = "transfer"
           /\ txs[last'.tx].status = "pending"
           /\ txs[last'.tx].amount > 0
           /\ ApproverCheck(txs[last'.tx].amount, last'.role) = "none"
           /\ accounts[txs[last'.tx].account_id].state = "Active"
           /\ accounts[txs[last'.tx].account_id].balance >= txs[last'.tx].amount
           /\ StateDeposit(accounts[txs[last'.tx].target_account_id].state))
          => (/\ last'.result = "ok"
              /\ txs'[last'.tx].status = "completed"
              /\ Balances(accounts') =
                    Moved(Balances(accounts), txs[last'.tx].account_id,
                          txs[last'.tx].target_account_id,
                          txs[last'.tx].amount))]_vars

\* ------------------------------------------------------------------------
\* C12  If the operation under approve_transaction cannot be applied in
\* full (insufficient funds, a source whose state denies withdrawal, a
\* target that denies deposit), the transaction is marked Rejected, the
\* error reaches the caller and no balance changes.
\* ------------------------------------------------------------------------
\* The account operations of transaction tx cannot all take effect on db.
CannotApply(db, tx) ==
    \/ /\ tx.transaction_type \in {"withdrawal", "transfer"}
       /\ \/ ~StateWithdraw(db[tx.account_id].state)
          \/ db[tx.account_id].balance < tx.amount
    \/ /\ tx.transaction_type = "deposit"
       /\ ~StateDeposit(db[tx.account_id].state)
    \/ /\ tx.transaction_type = "transfer"
       /\ ~StateDeposit(db[tx.target_account_id].state)

C12_FailedApprovalRejects ==
    [][(/\ last'.op = "approve_transaction"
        /\ txs[last'.tx].status = "pending"
        /\ txs[last'.tx].amount > 0
        /\ ApproverCheck(txs[last'.tx].amount, last'.role) = "none"
        /\ CannotApply(accounts, txs[last'.tx]))
       => (/\ last'.result # "ok"
           /\ txs'[last'.tx].status = "rejected"
           /\ accounts' = accounts)]_vars

\* ------------------------------------------------------------------------
\* C13  A chain-approved withdraw that the state policy of a Suspended or
\* Closed account declines is marked Rejected and raises an error, with no
\* balance change; it is not left Approved or Pending.
\* ------------------------------------------------------------------------
C13_DeclinedWithdrawRejected ==
    (/\ last.op = "withdraw"
     /\ ChainApproved
     /\ txs[last.tx].amount > 0
     /\ accounts[txs[last.tx].account_id].state \in {"Suspended", "Closed"})
    => (/\ last.result # "ok"
        /\ last.status = "rejected"
        /\ txs[last.tx].status = "rejected"
        /\ applied[last.tx] = 0)

\* ------------------------------------------------------------------------
\* C14  As claimed: withdraw and transfer refuse, with UnauthorizedAccess,
\* no transaction and no balance change, every call whose authenticated
\* account differs from the source account and every Customer call whose
\* actor does not own the source account; Employee and Admin callers are
\* never refused on ownership grounds.
\* ------------------------------------------------------------------------
\* The call was refused: UnauthorizedAccess, nothing created or changed.
UnauthorizedOutcome ==
    /\ last'.result = "UnauthorizedAccess"
    /\ txs' = txs
    /\ accounts' = accounts

Mismatch(a, c) == c[2] # NoAuth /\ c[2] # a

NotOwner(a, r, c) == r = "customer" /\ accounts[a].owner_id # c[1]

\* Employee and Admin callers of the user/role flow are not refused.
StaffBypass ==
    /\ \A a \in AccountIds, amt \in Amounts, r \in {"employee", "admin"},
          u \in Users :
          ~ENABLED (/\ withdraw(a, amt, r, u, NoAuth)
                    /\ last'.result = "UnauthorizedAccess")
    /\ \A p \in TransferPairs, amt \in Amounts, r \in {"employee", "admin"},
          u \in Users :
          ~ENABLED (/\ transfer(p[1], p[2], amt, r, u, NoAuth)
                    /\ last'.result = "UnauthorizedAccess")

C14_OwnershipAlwaysEnforced ==
    More =>
       /\ \A a \in AccountIds, amt \in Amounts, r \in Role, c \in Credentials :
             (Mismatch(a, c) \/ NotOwner(a, r, c))
             => ~ENABLED (/\ withdraw(a, amt, r, c[1], c[2])
                          /\ ~UnauthorizedOutcome)
       /\ \A p \in TransferPairs, amt \in Amounts, r \in Role, c \in Credentials :
             (p[1] \in AccountIds /\ (Mismatch(p[1], c) \/ NotOwner(p[1], r, c)))
             => ~ENABLED (/\ transfer(p[1], p[2], amt, r, c[1], c[2])
                          /\ ~UnauthorizedOutcome)
       /\ StaffBypass

\* C14 as amended: among calls whose accounts all exist, those refused are
\* the calls whose authenticated account differs from the source account
\* and, in the user/role flow (no authenticated account), the Customer
\* calls whose actor does not own the source account; Employee and Admin
\* callers of the user/role flow are never refused.
C14_OwnershipEnforcedPerFlow ==
    More =>
       /\ \A a \in AccountIds, amt \in Amounts, r \in Role, c \in Credentials :
             (Mismatch(a, c) \/ (c[2] = NoAuth /\ NotOwner(a, r, c)))
             => ~ENABLED (/\ withdraw(a, amt, r, c[1], c[2])
                          /\ ~UnauthorizedOutcome)
       /\ \A p \in TransferPairs, amt \in Amounts, r \in Role, c \in Credentials :
             (/\ p[1] \in AccountIds
              /\ p[2] \in AccountIds
              /\ (Mismatch(p[1], c) \/ (c[2] = NoAuth /\ NotOwner(p[1], r, c))))
             => ~ENABLED (/\ transfer(p[1], p[2], amt, r, c[1], c[2])
                          /\ ~UnauthorizedOutcome)
       /\ StaffBypass

C14_Witness ==
    /\ last.op \in {"withdraw", "transfer"}
    /\ last.result = "UnauthorizedAccess"
    /\ last.tx = 0
    /\ Len(txs) = 1
    /\ txs[1].status = "pending"
    /\ Balances(accounts) = InitialBalance

\* ------------------------------------------------------------------------
\* C15  approve_transaction and deny_transaction succeed only for an
\* Employee (amount <= 75 000) or an Admin; a call with the Customer role
\* never changes a transaction's status or any balance.
\* ------------------------------------------------------------------------
C15_CustomerNeverResolves ==
    [][(last'.op \in {"approve_transaction", "deny_transaction"})
       => /\ last'.result = "ok"
             => \/ last'.role = "admin"
                \/ /\ last'.role = "employee"
                   /\ txs[last'.tx].amount <= 75000
          /\ last'.role = "customer"
             => (txs' = txs /\ accounts' = accounts)]_vars

\* ------------------------------------------------------------------------
\* C16  deny_transaction on a Pending transaction by a role the check
\* authorizes sets that transaction's status to Rejected, changes no other
\* transaction, no account balance and no account state, and emits exactly
\* one event, the approval-decision event.
\* ------------------------------------------------------------------------
C16_DenyOnlyRejects ==
    [][(/\ last'.op = "deny_transaction"
        /\ txs[last'.tx].status = "pending"
        /\ DenierCheck(txs[last'.tx].amount, last'.role) = "none")
       => (/\ last'.result = "ok"
           /\ txs' = UpdateStatus(txs, last'.tx, "rejected")
           /\ accounts' = accounts
           /\ applied' = applied
           /\ Len(last'.events) = 1
           /\ last'.events[1].type = "TRANSACTION_APPROVED")]_vars

C16_Witness ==
    /\ last.op = "deny_transaction"
    /\ last.role = "employee"
    /\ last.result = "ok"
    /\ txs[last.tx].status = "rejected"
    /\ MidTier(txs[last.tx].amount)
    /\ applied[last.tx] = 0
    /\ Balances(accounts) = InitialBalance
    /\ Len(last.events) = 1

\* ------------------------------------------------------------------------
\* C17  For every approver role and amount, deny_transaction is authorized
\* exactly when approve_transaction is: above 75 000 only for Admin, above
\* 25 000 only for Employee or Admin; an unauthorized denial fails with
\* UnauthorizedAccess and leaves the transaction Pending.
\* ------------------------------------------------------------------------
\* The rule as stated: role r may not resolve a transaction of amount amt.
Unauthorized(amt, r) ==
    \/ amt > 75000 /\ r # "admin"
    \/ amt > 25000 /\ r \notin {"employee", "admin"}

C17_DenyAuthorizedAsApprove ==
    [][(/\ last'.op \in {"approve_transaction", "deny_transaction"}
        /\ txs[last'.tx].status = "pending")
       => /\ DenierCheck(txs[last'.tx].amount, last'.role) =
                ApproverCheck(txs[last'.tx].amount, last'.role)
          /\ (last'.result = "UnauthorizedAccess")
                <=> Unauthorized(txs[last'.tx].amount, last'.role)
          /\ last'.result = "UnauthorizedAccess"
                => (txs' = txs /\ accounts' = accounts)
          /\ (last'.op = "deny_transaction" /\ last'.result # "UnauthorizedAccess")
                => (last'.result = "ok" /\ txs'[last'.tx].status = "rejected")]_vars

C17_Witness ==
    /\ last.op = "deny_transaction"
    /\ last.role = "employee"
    /\ last.result = "UnauthorizedAccess"
    /\ txs[last.tx].amount = 75001
    /\ txs[last.tx].status = "pending"

\* ------------------------------------------------------------------------
\* C18  Auto tier: for every amount <= 25 000, 25 000 itself included, and
\* every acting role, the chain approves at once with approver "System".
\* ------------------------------------------------------------------------
C18_AutoTierApprovesAsSystem ==
    [][(Creates /\ txs'[last'.tx].amount <= 25000)
       => /\ last'.approver = "System"
          /\ last'.status # "pending"
          /\ \A r \in Role :
                ApprovalChain(txs'[last'.tx].amount, r) =
                   Decision(TRUE, "System", "Auto")]_vars

C18_Witness ==
    /\ last.op = "deposit"
    /\ Created
    /\ txs[last.tx].amount = 25000
    /\ last.approver = "System"
    /\ txs[last.tx].status = "completed"

\* ------------------------------------------------------------------------
\* C19  Role tier: for every amount with 25 000 < amount <= 75 000, 75 000
\* itself included, the chain approves exactly when the acting role is
\* Employee or Admin, with the role's name as approver; for a Customer the
\* employee tier decides nothing, the admin tier is not consulted and the
\* transaction stays Pending.
\* ------------------------------------------------------------------------
C19_RoleTierApprovesStaff ==
    [][(Creates /\ MidTier(txs'[last'.tx].amount))
       => \A r \in Role :
             RequestedBy(r)
             => /\ r \in {"employee", "admin"}
                   => /\ last'.approver = Title(r)
                      /\ last'.status # "pending"
                      /\ ApprovalChain(txs'[last'.tx].amount, r).approved
                /\ r = "customer"
                   => /\ last'.approver = "none"
                      /\ last'.status = "pending"
                      /\ txs'[last'.tx].status = "pending"
                      /\ accounts' = accounts
                      /\ ApprovalChain(txs'[last'.tx].amount, r).handler =
                            "Employee"]_vars

C19_Witness ==
    /\ last.op = "deposit"
    /\ Created
    /\ txs[last.tx].amount = 75000
    /\ last.approver = "Employee"
    /\ txs[last.tx].status = "completed"

\* A Customer's request of exactly 75 000 stays Pending.
C19_CustomerPending ==
    /\ last.op = "withdraw"
    /\ Created
    /\ txs[last.tx].amount = 75000
    /\ last.approver = "none"
    /\ txs[last.tx].status = "pending"

\* ------------------------------------------------------------------------
\* C20  Admin tier: for every amount > 75 000 the chain approves exactly
\* when the acting role is Admin, with approver "Admin"; for Employee or
\* Customer it decides nothing and the transaction stays Pending.
\* ------------------------------------------------------------------------
C20_AdminTierApprovesAdmin ==
    [][(Creates /\ txs'[last'.tx].amount > 75000)
       => \A r \in Role :
             RequestedBy(r)
             => /\ r = "admin"
                   => /\ last'.approver = "Admin"
                      /\ last'.status # "pending"
                      /\ ApprovalChain(txs'[last'.tx].amount, r).approved
                /\ r # "admin"
                   => /\ last'.approver = "none"
                      /\ last'.status = "pending"
                      /\ txs'[last'.tx].status = "pending"
                      /\ accounts' = accounts]_vars

C20_Witness ==
    /\ last.op = "deposit"
    /\ Created
    /\ txs[last.tx].amount = 75001
    /\ last.approver = "Admin"
    /\ txs[last.tx].status = "completed"

\* ------------------------------------------------------------------------
\* C21  The account's domain operations follow the state permission table:
\* Active allows deposit, withdraw and outgoing transfer, Frozen and
\* Suspended allow deposit only, Closed allows none; an operation the state
\* denies returns False (or raises) and leaves the account as it was, and
\* an operation the state allows, of a positive amount the balance covers,
\* goes through.
\* ------------------------------------------------------------------------
C21_StatePermissionTable ==
    \A a \in AccountIds, amt \in Amounts :
       LET acc == GetAccount(accounts, a)
           s == acc.state
           dp == AccountDeposit(acc, amt)
           w == AccountWithdraw(acc, amt)
           tr == AccountTransfer(acc, amt)
       IN /\ StateDeposit(s) = (s \in {"Active", "Frozen", "Suspended"})
          /\ StateWithdraw(s) = (s = "Active")
          /\ StateTransfer(s) = (s = "Active")
          /\ ~StateDeposit(s) => (~dp.ret /\ dp.acc = acc)
          /\ ~StateWithdraw(s) => (~w.ret /\ w.acc = acc)
          /\ ~StateTransfer(s) => (~tr.ret /\ tr.acc = acc)
          /\ (s # "Closed" /\ amt > 0)
                => (dp.ret /\ dp.acc.balance = acc.balance + amt)
          /\ (s = "Active" /\ amt > 0 /\ amt <= acc.balance)
                => (/\ w.ret /\ w.acc.balance = acc.balance - amt
                    /\ tr.ret /\ tr.acc = acc)
          /\ s \in {"Frozen", "Suspended", "Closed"}
                => (w.acc.balance = acc.balance /\ tr.acc.balance = acc.balance)

\* A chain-approved deposit of a positive amount that a Closed account
\* refused: no balance was persisted for it.
C21_Witness ==
    /\ last.op = "deposit"
    /\ ChainApproved
    /\ txs[last.tx].amount > 0
    /\ GetAccount(accounts, txs[last.tx].account_id).state = "Closed"
    /\ applied[last.tx] = 0
    /\ accounts[txs[last.tx].account_id].balance =
          InitialBalance[txs[last.tx].account_id]

\* ------------------------------------------------------------------------
\* C22  While an account is Closed, no deposit, withdraw, transfer (with
\* the account as source or as target) or approve_transaction changes its
\* persisted balance.
\* ------------------------------------------------------------------------
C22_ClosedBalanceUntouched ==
    [][\A a \in AccountIds :
          (/\ accounts[a].state = "Closed"
           /\ last'.op \in {"deposit", "withdraw", "transfer",
                            "approve_transaction"})
          => accounts'[a].balance = accounts[a].balance]_vars

\* A transfer of a positive amount into a Closed account ran to completion
\* and the Closed account's balance is what it was.
C22_Witness ==
    /\ last.op = "transfer"
    /\ last.status = "completed"
    /\ txs[last.tx].amount > 0
    /\ txs[last.tx].target_account_id # txs[last.tx].account_id
    /\ accounts[txs[last.tx].target_account_id].state = "Closed"
    /\ accounts[txs[last.tx].target_account_id].balance =
          InitialBalance[txs[last.tx].target_account_id]

\* ------------------------------------------------------------------------
\* C23  An account state change is accepted only from an Employee or an
\* Admin: a Customer's request always fails with UnauthorizedAccess and
\* leaves every account as it was, and an Employee's or Admin's request on
\* an account that is not Closed moves it to whichever of Active, Frozen,
\* Suspended or Closed it names.
\* ------------------------------------------------------------------------
C23_StateChangeByStaffOnly ==
    [][last'.op = "change_account_state"
       => /\ last'.role = "customer"
             => (last'.result = "UnauthorizedAccess" /\ accounts' = accounts)
          /\ \A a \in StateChangeIds \cap AccountIds, n \in StateNames :
                (/\ last'.role \in {"employee", "admin"}
                 /\ accounts[a].state # "Closed"
                 /\ change_account_state(a, n, last'.role))
                => (/\ last'.result = "ok"
                    /\ accounts'[a].state = state_map[n]
                    /\ accounts'[a].balance = accounts[a].balance)
          /\ last'.result = "ok" => last'.role \in {"employee", "admin"}]_vars

\* A Customer's state change was refused and an account that is not Closed
\* kept its state.
C23_Witness ==
    /\ last.op = "change_account_state"
    /\ last.role = "customer"
    /\ last.result = "UnauthorizedAccess"
    /\ \E a \in StateChangeIds \cap AccountIds : accounts[a].state = "Frozen"

\* An Employee moved an account out of Suspended into Frozen.
C23_StaffWitness ==
    /\ last.op = "change_account_state"
    /\ last.role = "employee"
    /\ last.result = "ok"
    /\ calls = 1
    /\ \E a \in StateChangeIds \cap AccountIds : accounts[a].state = "Frozen"

\* ------------------------------------------------------------------------
\* C27  Transfers conserve money: a transfer between two distinct accounts,
\* requested directly or executed by approve_transaction, leaves the sum of
\* the two persisted balances unchanged whatever its outcome.
\* ------------------------------------------------------------------------
\* The transaction a transfer request created, or the transfer an
\* approve_transaction call was given, in the step being taken.
TransferStep(id) ==
    \/ Creates /\ last'.op = "transfer" /\ id = last'.tx
    \/ /\ last'.op = "approve_transaction"
       /\ id = last'.tx
       /\ id <= Len(txs)
       /\ txs[id].transaction_type = "transfer"

C27_TransfersConserveMoney ==
    [][\A id \in 1..Len(txs') :
          (/\ TransferStep(id)
           /\ txs'[id].account_id # txs'[id].target_account_id)
          => accounts'[txs'[id].account_id].balance
                + accounts'[txs'[id].target_account_id].balance
             = accounts[txs'[id].account_id].balance
                + accounts[txs'[id].target_account_id].balance]_vars

\* ------------------------------------------------------------------------
\* C28  A transfer whose source and target are the same account, requested
\* directly or executed by approve_transaction, leaves that account's
\* persisted balance unchanged.
\* ------------------------------------------------------------------------
C28_SelfTransferKeepsBalance ==
    [][\A id \in 1..Len(txs') :
          (/\ TransferStep(id)
           /\ txs'[id].account_id = txs'[id].target_account_id)
          => accounts'[txs'[id].account_id].balance
                = accounts[txs'[id].account_id].balance]_vars

\* ------------------------------------------------------------------------
\* C30  When deposit, withdraw or transfer returns a Transaction, its
\* in-memory status equals the status persisted under its id.
\* ------------------------------------------------------------------------
C30_ReturnedStatusIsPersisted ==
    (Created /\ txs[last.tx].amount > 0) => last.status = txs[last.tx].status

\* ------------------------------------------------------------------------
\* C25  A failing listener is isolated: when a call notifies its observers
\* and one of them raises, every other observer still receives the event,
\* the caller sees no error, and the call keeps its successful outcome (a
\* transfer stays Completed).
\* ------------------------------------------------------------------------
C25_FailingListenerIsolated ==
    last.events # << >>
    => /\ \A i \in DOMAIN observers :
             Kind(observers[i]) = "ok"
                => Notify(observers, last.events).received[i] = last.events
       /\ last.result = "ok"
       /\ last.op = "transfer" => txs[last.tx].status = "completed"

\* ------------------------------------------------------------------------
\* C26  Transaction status transitions are monotonic: the statuses
\* committed for a transaction only move forward along Pending, Approved,
\* Completed, or to Rejected, and nothing follows Completed or Rejected.
\* ------------------------------------------------------------------------
Forward(s, t) ==
    \/ s = "pending" /\ t \in {"approved", "completed", "rejected"}
    \/ s = "approved" /\ t \in {"completed", "rejected"}

C26_StatusMovesForward ==
    \A id \in 1..Len(txs) :
       \A i \in 1..(Len(txs[id].trail) - 1) :
          Forward(txs[id].trail[i], txs[id].trail[i + 1])

\* ------------------------------------------------------------------------
\* C24  Concurrent requests touching the same account lose no update: once
\* the interleaved requests have returned, the persisted balance is the
\* initial balance plus the amounts of the deposits that were carried out.
\* ------------------------------------------------------------------------
Quiet == \A p \in Procs : Handler(p).pc = "idle"

\* The amounts that the first n transactions credited to account a, each
\* counted as often as a handler wrote a balance for it.
RECURSIVE Credited(_, _)
Credited(a, n) ==
    IF n = 0 THEN 0
    ELSE Credited(a, n - 1)
            + (IF txs[n].account_id = a THEN applied[n] * txs[n].amount ELSE 0)

C24_NoLostUpdate ==
    Quiet => \A a \in RaceAccounts :
                accounts[a].balance = InitialBalance[a] + Credited(a, Len(txs))

\* ------------------------------------------------------------------------
\* C29  If two approve_transaction calls for the same Pending transaction
\* interleave, the transaction's operation is executed at most once and at
\* most one of the two calls succeeds.
\* ------------------------------------------------------------------------
BothApproved(id) ==
    \A p \in Procs : /\ Handler(p).pc = "idle"
                     /\ Handler(p).op = "approve_transaction"
                     /\ Handler(p).tx = id

C29_ApprovedAtMostOnce ==
    \A id \in 1..Len(txs) :
       BothApproved(id)
       => /\ ~(\A p \in Procs : Handler(p).wrote)
          /\ ~(\A p \in Procs : Handler(p).result = "ok")

C32_CompleteRefused ==
    /\ last.op = "complete_transaction"
    /\ last.result = "InvalidTransaction"
    /\ last.tx <= Len(txs)
    /\ txs[last.tx].status = "pending"

\* ------------------------------------------------------------------------
\* C33  A transfer that completes emits exactly two BALANCE_CHANGED events
\* and one TRANSACTION_COMPLETED event, in the order: balance change of the
\* source, balance change of the target, completion; a transfer that does
\* not complete emits none of them.
\* ------------------------------------------------------------------------
C33_TransferEventOrder ==
    (last.op = "transfer" /\ last.tx # 0)
    => IF txs[last.tx].status = "completed"
       THEN last.events =
               <<Event("BALANCE_CHANGED", txs[last.tx].account_id),
                 Event("BALANCE_CHANGED", txs[last.tx].target_account_id),
                 Event("TRANSACTION_COMPLETED", txs[last.tx].account_id)>>
       ELSE last.events = << >>

\* ------------------------------------------------------------------------
\* C34  A deposit of an amount that is zero or negative is a silent no-op:
\* the call does not raise, the balance is unchanged, no event is emitted,
\* and the transaction is left Pending, both the row and the Transaction
\* handed back.
\* ------------------------------------------------------------------------
C34_NonPositiveDepositStaysPending ==
    (last.op = "deposit" /\ last.tx # 0 /\ txs[last.tx].amount <= 0)
    => /\ last.result = "ok"
       /\ applied[last.tx] = 0
       /\ last.events = << >>
       /\ txs[last.tx].status = "pending"
       /\ last.status = "pending"

\* ------------------------------------------------------------------------
\* C36  deposit, withdraw and transfer called with an unknown account id
\* (for transfer: an unknown source or an unknown target) fail with
\* AccountNotFound, create no transaction row and change no balance,
\* whatever the amount, the role and the caller's identity.
\* ------------------------------------------------------------------------
NotFoundOutcome ==
    /\ last'.result = "AccountNotFound"
    /\ last'.tx = 0
    /\ UNCHANGED <<accounts, txs>>

C36_UnknownAccountNotFound ==
    More =>
       /\ \A a \in RequestIds \ AccountIds, amt \in Amounts, r \in Role :
             /\ \A u \in Users :
                   ~ENABLED (deposit(a, amt, r, u) /\ ~NotFoundOutcome)
             /\ \A c \in Credentials :
                   ~ENABLED (withdraw(a, amt, r, c[1], c[2]) /\ ~NotFoundOutcome)
       /\ \A p \in TransferPairs, amt \in Amounts, r \in Role, c \in Credentials :
             (p[1] \notin AccountIds \/ p[2] \notin AccountIds)
             => ~ENABLED (/\ transfer(p[1], p[2], amt, r, c[1], c[2])
                          /\ ~NotFoundOutcome)

\* A request naming an unknown account was refused after a transaction had
\* been created by an earlier call, and that row is all there is.
C36_Witness ==
    /\ last.op \in Requests
    /\ last.result = "AccountNotFound"
    /\ last.tx = 0
    /\ Len(txs) = 1
    /\ calls = 2

\* ------------------------------------------------------------------------
\* C37  deposit performs no ownership check: whatever the acting role and
\* the user id passed (deposit takes no authenticated account), a deposit
\* to an existing account is never refused with UnauthorizedAccess; it
\* returns normally with the transaction it created.
\* ------------------------------------------------------------------------
C37_DepositNeverUnauthorized ==
    /\ last.op = "deposit" => last.result # "UnauthorizedAccess"
    /\ More =>
          \A a \in AccountIds, amt \in Amounts, r \in Role, u \in Users :
             /\ ENABLED deposit(a, amt, r, u)
             /\ ~ENABLED (/\ deposit(a, amt, r, u)
                          /\ ~(/\ last'.result = "ok"
                               /\ last'.tx = Len(txs) + 1
                               /\ Len(txs') = Len(txs) + 1))

\* A deposit into account B, which u2 owns, completed in a run in which
\* every role and user id, the owner's or not, deposits into B.
C37_Witness ==
    /\ last.op = "deposit"
    /\ last.result = "ok"
    /\ last.status = "completed"
    /\ txs[last.tx].account_id = "B"
    /\ accounts["B"].owner_id # "u1"
    /\ accounts["B"].balance > InitialBalance["B"]

\* ------------------------------------------------------------------------
\* C38  In every reachable state an account's closed flag agrees with its
\* lifecycle state: is_closed is true exactly when the state is Closed.
\* ------------------------------------------------------------------------
C38_ClosedFlagMatchesState ==
    \A a \in AccountIds :
       accounts[a].is_closed <=> (accounts[a].state = "Closed")

C31_BalanceNeverNegative ==
    \A a \in AccountIds : accounts[a].balance >= 0

\* Two withdrawals of 200 from account A, which held 300, both loaded the
\* account before either wrote, both succeeded, and the balance is 100.
C31_Witness ==
    /\ \A p \in Procs :
          /\ p \in DOMAIN inflight
          /\ inflight[p].op = "withdraw"
          /\ inflight[p].account_id = "A"
          /\ inflight[p].amount = 200
          /\ inflight[p].pc = "idle"
          /\ inflight[p].wrote
    /\ accounts["A"].balance = 100
    /\ Len(txs) = 2

====
